---------------------------- MODULE Spec2Model ----------------------------
(***************************************************************************)
(* Model of the calculator REPL of src/interp/src/main.rs: main's read     *)
(* loop, the lexer (lex), the shunting-yard parser (parse, construct_expr) *)
(* and the recursive evaluator (evaluate).                                 *)
(*                                                                         *)
(* A line is a sequence of one-character strings.  A Rust panic (an        *)
(* unwrap() of None or Err, an arithmetic overflow trap) ends the process: *)
(* it is the control state pc = "panic".                                   *)
(***************************************************************************)
EXTENDS Integers, Sequences, FiniteSets, TLC

(***************************************************************************)
(* Bounds of the model.                                                    *)
(***************************************************************************)
\* Longest line, in whitespace-separated chunks, of the exhaustive inputs.
MaxTokens == 3

(***************************************************************************)
(* i32.                                                                    *)
(***************************************************************************)
I32Max == 2147483647
I32Min == -I32Max - 1

(***************************************************************************)
(* Token (main.rs 16-20).  Every token is a record of the same shape; the  *)
(* payload fields are 0 and <<>> for the variants without payload.         *)
(***************************************************************************)
OperatorKinds == {"POW", "PLUS", "MINUS", "TIMES", "DIVIDE", "MODULO"}

Token(kind, num, text) == [kind |-> kind, num |-> num, text |-> text]
LexicalError(text) == Token("LexicalError", 0, text)
LexicalNumber(n) == Token("LexicalNumber", n, <<>>)
POW == Token("POW", 0, <<>>)
PLUS == Token("PLUS", 0, <<>>)
MINUS == Token("MINUS", 0, <<>>)
TIMES == Token("TIMES", 0, <<>>)
DIVIDE == Token("DIVIDE", 0, <<>>)
MODULO == Token("MODULO", 0, <<>>)
LPAREN == Token("LPAREN", 0, <<>>)
RPAREN == Token("RPAREN", 0, <<>>)

\* Option<Token>::None, the result of Vec::pop on an empty vector.
NoToken == Token("None", 0, <<>>)

(***************************************************************************)
(* Expr (main.rs 22-30).  A leaf is [op |-> "Number", val |-> n]; an inner *)
(* node is [op |-> kind, left |-> e1, right |-> e2] with kind one of       *)
(* Plus, Minus, Times, Divide, Modulo, Pow.                                *)
(***************************************************************************)
Number(n) == [op |-> "Number", val |-> n]
BinaryOp(kind, l, r) == [op |-> kind, left |-> l, right |-> r]

(***************************************************************************)
(* SyntaxError (main.rs 10-14) and Result<Expr, SyntaxError>.              *)
(***************************************************************************)
UnknownSymbol(text) == [err |-> "UnknownSymbol", text |-> text]
MismatchedParentheses == [err |-> "MismatchedParentheses", text |-> <<>>]
GeneralError == [err |-> "GeneralError", text |-> <<>>]

Ok(e) == [tag |-> "Ok", expr |-> e, error |-> GeneralError]
Err(x) == [tag |-> "Err", expr |-> Number(0), error |-> x]
\* `expression` before parse has returned (declared, not yet assigned).
Unassigned == [tag |-> "Unassigned", expr |-> Number(0), error |-> GeneralError]

(***************************************************************************)
(* Characters and strings.                                                 *)
(***************************************************************************)
Digits == {"0", "1", "2", "3", "4", "5", "6", "7", "8", "9"}

DigitVal(c) ==
    CASE c = "0" -> 0 [] c = "1" -> 1 [] c = "2" -> 2 [] c = "3" -> 3
      [] c = "4" -> 4 [] c = "5" -> 5 [] c = "6" -> 6 [] c = "7" -> 7
      [] c = "8" -> 8 [] c = "9" -> 9

\* char::is_whitespace, over the characters of the model.
IsWhitespace(c) == c \in {" ", "\n"}

RECURSIVE TrimStart(_)
TrimStart(s) ==
    IF s # <<>> /\ IsWhitespace(Head(s)) THEN TrimStart(Tail(s)) ELSE s

RECURSIVE TrimEnd(_)
TrimEnd(s) ==
    IF s # <<>> /\ IsWhitespace(s[Len(s)])
    THEN TrimEnd(SubSeq(s, 1, Len(s) - 1))
    ELSE s

\* str::trim
Trim(s) == TrimEnd(TrimStart(s))

\* str::split(" "): the chunks between single spaces; n spaces give n + 1
\* chunks, some of them possibly empty.
RECURSIVE SplitFrom(_, _)
SplitFrom(s, cur) ==
    IF s = <<>> THEN <<cur>>
    ELSE IF Head(s) = " " THEN <<cur>> \o SplitFrom(Tail(s), <<>>)
    ELSE SplitFrom(Tail(s), Append(cur, Head(s)))

Split(s) == SplitFrom(s, <<>>)

(***************************************************************************)
(* str::parse::<i32>: an optional sign, then one or more decimal digits,   *)
(* accumulated with checked arithmetic (towards the sign, so that          *)
(* -2147483648 parses).  [ok |-> FALSE] is Err(ParseIntError).             *)
(***************************************************************************)
ParseOk(n) == [ok |-> TRUE, val |-> n]
ParseErr == [ok |-> FALSE, val |-> 0]

RECURSIVE ParsePositive(_, _)
ParsePositive(s, acc) ==
    IF s = <<>> THEN ParseOk(acc)
    ELSE IF Head(s) \notin Digits THEN ParseErr
    ELSE IF acc > (I32Max - DigitVal(Head(s))) \div 10 THEN ParseErr
    ELSE ParsePositive(Tail(s), acc * 10 + DigitVal(Head(s)))

RECURSIVE ParseNegative(_, _)
ParseNegative(s, acc) ==
    IF s = <<>> THEN ParseOk(acc)
    ELSE IF Head(s) \notin Digits THEN ParseErr
    ELSE IF -acc > (IF DigitVal(Head(s)) = 0
                    THEN I32Max \div 10
                    ELSE (I32Max - (DigitVal(Head(s)) - 1)) \div 10)
         THEN ParseErr
    ELSE ParseNegative(Tail(s), acc * 10 - DigitVal(Head(s)))

ParseI32(s) ==
    IF s = <<>> THEN ParseErr
    ELSE IF Head(s) = "-"
         THEN IF Len(s) = 1 THEN ParseErr ELSE ParseNegative(Tail(s), 0)
    ELSE IF Head(s) = "+"
         THEN IF Len(s) = 1 THEN ParseErr ELSE ParsePositive(Tail(s), 0)
    ELSE ParsePositive(s, 0)

(***************************************************************************)
(* lex (main.rs 68-89).                                                    *)
(***************************************************************************)
LexLexeme(lexeme) ==
    CASE lexeme = <<"^">> -> POW
      [] lexeme = <<"+">> -> PLUS
      [] lexeme = <<"-">> -> MINUS
      [] lexeme = <<"*">> -> TIMES
      [] lexeme = <<"/">> -> DIVIDE
      [] lexeme = <<"%">> -> MODULO
      [] lexeme = <<"(">> -> LPAREN
      [] lexeme = <<")">> -> RPAREN
      [] OTHER -> IF ParseI32(lexeme).ok
                  THEN LexicalNumber(ParseI32(lexeme).val)
                  ELSE LexicalError(lexeme)

lex(l) ==
    LET strings == Split(Trim(l))
    IN  [i \in 1..Len(strings) |-> LexLexeme(strings[i])]

(***************************************************************************)
(* i32 arithmetic.  An operation yields its two's-complement result and    *)
(* whether the exact result is out of range: with overflow checks compiled *)
(* in (a debug build) `+ - *` and pow panic on overflow, without them (a   *)
(* release build) they wrap.  No intermediate value leaves the i32 range.  *)
(***************************************************************************)
Arith(ovf, val) == [ovf |-> ovf, val |-> val]

AddOverflows(a, b) ==
    \/ b > 0 /\ a > I32Max - b
    \/ b < 0 /\ a < I32Min - b

WrapAdd(a, b) ==
    IF b > 0 /\ a > I32Max - b THEN (a - I32Max - 1) + (b - I32Max - 1)
    ELSE IF b < 0 /\ a < I32Min - b THEN (a + I32Max + 1) + (b + I32Max + 1)
    ELSE a + b

WrapNeg(a) == IF a = I32Min THEN I32Min ELSE -a

SubOverflows(a, b) ==
    \/ b < 0 /\ a > I32Max + b
    \/ b > 0 /\ a < I32Min + b

WrapSub(a, b) == WrapAdd(a, WrapNeg(b))

MulOverflows(a, b) ==
    IF a = 0 \/ b = 0 THEN FALSE
    ELSE IF a > 0 /\ b > 0 THEN a > I32Max \div b
    ELSE IF a < 0 /\ b < 0
         THEN a = I32Min \/ b = I32Min \/ -a > I32Max \div (-b)
    ELSE IF a > 0 THEN b < (I32Min + a - 1) \div a
    ELSE a < (I32Min + b - 1) \div b

\* a * n modulo 2^32 for n >= 0, by doubling.
RECURSIVE WrapMulNat(_, _)
WrapMulNat(a, n) ==
    IF n = 0 THEN 0
    ELSE LET h == WrapMulNat(WrapAdd(a, a), n \div 2)
         IN  IF n % 2 = 1 THEN WrapAdd(h, a) ELSE h

WrapMul(a, b) ==
    IF ~MulOverflows(a, b) THEN a * b
    ELSE IF b >= 0 THEN WrapMulNat(a, b)
    ELSE WrapSub(WrapNeg(WrapMulNat(a, -(b + 1))), a)

Add(a, b) == Arith(AddOverflows(a, b), WrapAdd(a, b))
Sub(a, b) == Arith(SubOverflows(a, b), WrapSub(a, b))
Mul(a, b) == Arith(MulOverflows(a, b), WrapMul(a, b))

\* l / p truncated toward zero, p > 0.
TruncDivPos(l, p) == IF l >= 0 THEN l \div p ELSE (l + p - 1) \div p

\* l / r truncated toward zero; r # 0 and not (l = I32Min and r = -1).
TruncDiv(l, r) ==
    IF r > 0 THEN TruncDivPos(l, r)
    ELSE IF r = I32Min THEN (IF l = I32Min THEN 1 ELSE 0)
    ELSE -TruncDivPos(l, -r)

\* l % r, the remainder of the truncated division (sign of l).
TruncRem(l, r) == l - r * TruncDiv(l, r)

\* `n as u32`, kept as the top bit and the low 31 bits.
AsU32(n) ==
    IF n >= 0 THEN [hi |-> 0, lo |-> n]
    ELSE [hi |-> 1, lo |-> (n + I32Max) + 1]

U32Half(e) == [hi |-> 0, lo |-> e.lo \div 2 + e.hi * 1073741824]

\* i32::pow, exponentiation by squaring; an overflow of any product is kept.
RECURSIVE PowLoop(_, _, _)
PowLoop(acc, base, e) ==
    IF e.hi = 0 /\ e.lo <= 1
    THEN IF e.lo = 0 THEN acc
         ELSE Arith(acc.ovf \/ base.ovf \/ MulOverflows(acc.val, base.val),
                    WrapMul(acc.val, base.val))
    ELSE LET acc1 == IF e.lo % 2 = 1
                     THEN Arith(acc.ovf \/ base.ovf
                                  \/ MulOverflows(acc.val, base.val),
                                WrapMul(acc.val, base.val))
                     ELSE acc
             base1 == Arith(base.ovf \/ MulOverflows(base.val, base.val),
                            WrapMul(base.val, base.val))
         IN  PowLoop(acc1, base1, U32Half(e))

PowI32(b, e) == PowLoop(Arith(FALSE, 1), Arith(FALSE, b), e)

(***************************************************************************)
(* evaluate (main.rs 205-234).  Result<i32, String>: EvalOk(n) or EvalErr  *)
(* ("Division by zero!"); EvalPanic is a panic raised inside evaluate,     *)
(* which ends the process.  `checks` says whether the build traps          *)
(* arithmetic overflow.                                                    *)
(***************************************************************************)
EvalOk(n) == [tag |-> "Ok", val |-> n]
EvalErr == [tag |-> "Err", val |-> 0]
EvalPanic == [tag |-> "Panic", val |-> 0]

\* Ok(op(l, r)) where l and r are the unwrapped results of the children.
EvalArith(l, r, res, checks) ==
    IF l.tag # "Ok" \/ r.tag # "Ok" THEN EvalPanic
    ELSE IF res.ovf /\ checks THEN EvalPanic
    ELSE EvalOk(res.val)

RECURSIVE evaluate(_, _)
evaluate(expr, checks) ==
    IF expr.op = "Number" THEN EvalOk(expr.val)
    ELSE IF expr.op \in {"Divide", "Modulo"} THEN
        LET r == evaluate(expr.right, checks)
        IN  IF r.tag # "Ok" THEN EvalPanic
            ELSE IF r.val = 0 THEN EvalErr
            ELSE LET l == evaluate(expr.left, checks)
                 IN  IF l.tag # "Ok" THEN EvalPanic
                     ELSE IF l.val = I32Min /\ r.val = -1 THEN EvalPanic
                     ELSE IF expr.op = "Divide"
                          THEN EvalOk(TruncDiv(l.val, r.val))
                          ELSE EvalOk(TruncRem(l.val, r.val))
    ELSE
        LET l == evaluate(expr.left, checks)
            r == IF l.tag = "Ok" THEN evaluate(expr.right, checks) ELSE l
        IN  IF l.tag # "Ok" \/ r.tag # "Ok" THEN EvalPanic
            ELSE CASE expr.op = "Pow" ->
                        EvalArith(l, r, PowI32(l.val, AsU32(r.val)), checks)
                   [] expr.op = "Plus" ->
                        EvalArith(l, r, Add(l.val, r.val), checks)
                   [] expr.op = "Minus" ->
                        EvalArith(l, r, Sub(l.val, r.val), checks)
                   [] expr.op = "Times" ->
                        EvalArith(l, r, Mul(l.val, r.val), checks)

(***************************************************************************)
(* The operator-precedence table of parse (main.rs 98-106), keyed by token *)
(* kind.  LPAREN and RPAREN are entries of the same table.                 *)
(***************************************************************************)
op_table ==
    [k \in OperatorKinds \cup {"LPAREN", "RPAREN"} |->
        CASE k = "POW"    -> [prec |-> 4, assoc |-> "RIGHT"]
          [] k = "TIMES"  -> [prec |-> 3, assoc |-> "LEFT"]
          [] k = "DIVIDE" -> [prec |-> 3, assoc |-> "LEFT"]
          [] k = "PLUS"   -> [prec |-> 2, assoc |-> "LEFT"]
          [] k = "MINUS"  -> [prec |-> 2, assoc |-> "LEFT"]
          [] k = "MODULO" -> [prec |-> 1, assoc |-> "LEFT"]
          [] k = "LPAREN" -> [prec |-> 9, assoc |-> "LEFT"]
          [] k = "RPAREN" -> [prec |-> 0, assoc |-> "LEFT"]]

(***************************************************************************)
(* construct_expr (main.rs 186-202).                                       *)
(***************************************************************************)
construct_expr(tok, l_op, r_op) ==
    CASE tok.kind = "POW"    -> Ok(BinaryOp("Pow", l_op, r_op))
      [] tok.kind = "DIVIDE" -> Ok(BinaryOp("Divide", l_op, r_op))
      [] tok.kind = "TIMES"  -> Ok(BinaryOp("Times", l_op, r_op))
      [] tok.kind = "PLUS"   -> Ok(BinaryOp("Plus", l_op, r_op))
      [] tok.kind = "MINUS"  -> Ok(BinaryOp("Minus", l_op, r_op))
      [] tok.kind = "MODULO" -> Ok(BinaryOp("Modulo", l_op, r_op))
      [] tok.kind = "LexicalError" -> Err(UnknownSymbol(tok.text))
      [] OTHER -> Err(GeneralError)

(***************************************************************************)
(* Vec<Token> (the operator stack: push and pop at the end) and            *)
(* LinkedList<Expr> (the operand container: push_front, pop_front,         *)
(* push_back).                                                             *)
(***************************************************************************)
Last(v) == v[Len(v)]
Pop(v) == SubSeq(v, 1, Len(v) - 1)
\* Vec::pop as an Option<Token>.
PopOption(v) == IF v = <<>> THEN NoToken ELSE Last(v)
PopRest(v) == IF v = <<>> THEN v ELSE Pop(v)
PushFront(q, e) == <<e>> \o q
PushBack(q, e) == Append(q, e)

(***************************************************************************)
(* Lines typed at the prompt.  Each is a sequence of chunks joined by      *)
(* single spaces and ended by the newline read_line keeps.                 *)
(***************************************************************************)
NumberLexemes == {<<"0">>, <<"1">>, <<"2">>}
OperatorLexemes == {<<"^">>, <<"+">>, <<"-">>, <<"*">>, <<"/">>, <<"%">>}
ParenLexemes == {<<"(">>, <<")">>}
\* A chunk that is no symbol and no integer; the empty chunk is what two
\* adjacent spaces, or a leading or trailing space, leave between them.
OtherLexemes == {<<"@">>, <<>>}
Lexemes == NumberLexemes \cup OperatorLexemes \cup ParenLexemes \cup OtherLexemes

RECURSIVE JoinSp(_)
JoinSp(ls) ==
    IF ls = <<>> THEN <<>>
    ELSE IF Len(ls) = 1 THEN ls[1]
    ELSE ls[1] \o <<" ">> \o JoinSp(Tail(ls))

RawLine(ls) == JoinSp(ls) \o <<"\n">>

\* A line of one-character chunks.
Words(cs) == RawLine([i \in 1..Len(cs) |-> <<cs[i]>>])

RECURSIVE SeqsOfLen(_, _)
SeqsOfLen(S, n) ==
    IF n = 0 THEN {<<>>}
    ELSE {Append(s, x) : s \in SeqsOfLen(S, n - 1), x \in S}

\* Every line of at most MaxTokens chunks.
ShortLines ==
    {RawLine(ls) : ls \in UNION {SeqsOfLen(Lexemes, n) : n \in 0..MaxTokens}}

\* Every chain  a op1 b op2 c.
ChainLines ==
    {RawLine(<<a, op1, b, op2, c>>) :
        a \in NumberLexemes, b \in NumberLexemes, c \in NumberLexemes,
        op1 \in OperatorLexemes, op2 \in OperatorLexemes}

\* Every chain with one of its five chunks replaced by an offending chunk.
BrokenChainLines ==
    {RawLine([i \in 1..5 |-> IF i = k THEN <<"@">> ELSE c[i]]) :
        c \in {<<a, op1, b, op2, <<"2">> >> :
                  a \in NumberLexemes, b \in NumberLexemes,
                  op1 \in OperatorLexemes, op2 \in OperatorLexemes},
        k \in 1..5}

\* The chunk of the least 32-bit integer.
MinLexeme == <<"-", "2", "1", "4", "7", "4", "8", "3", "6", "4", "8">>

\* The lines of the specification's examples and the exit sentinels.
ExampleLines ==
    { RawLine(<< <<"e", "x", "i", "t">> >>),
      RawLine(<< <<"q", "u", "i", "t">> >>),
      Words(<<"(", "1", "+", "2", ")", "*", "3">>),
      Words(<<"2", "^", "3", "^", "2">>),
      Words(<<"8", "-", "3", "-", "2">>),
      Words(<<"2", "+", "3", "*", "4">>),
      Words(<<"2", "*", "3", "+", "4">>),
      Words(<<"(", "2", "+", "3", ")", "*", "4">>),
      Words(<<"1", "+", "2", ")">>),
      Words(<<"(", "1", "*", "2", "+", "3">>),
      Words(<<"1", "+", "2", "*", "3", "%", "4">>),
      Words(<<"1", "+", "@", "2", "#">>),
      Words(<<"8", "-", "3">>),
      Words(<<"7", "/", "2">>),
      Words(<<"1", "+", "(", "2", "*", "3", ")", "*", "4">>),
      Words(<<"(", "1", "+", "2", "*", "3", "-", "4", ")">>),
      RawLine(<< <<"-", "1">>, <<"/">>, MinLexeme >>),
      RawLine(<< <<"-", "1">>, <<"%">>, MinLexeme >>),
      RawLine(<< MinLexeme, <<"/">>, <<"-", "1">> >>),
      RawLine(<< MinLexeme, <<"%">>, <<"-", "1">> >>),
      RawLine(<< <<"2">>, <<"/">>, <<"-", "7">> >>),
      RawLine(<< <<"2">>, <<"%">>, <<"-", "7">> >>),
      RawLine(<< <<"-", "2">>, <<"/">>, <<"7">> >>),
      RawLine(<< <<"-", "2">>, <<"%">>, <<"7">> >>),
      Words(<<"%", "+", "^", "1", "2", "*", "3", "4">>) }

\* Fully parenthesised expressions of two and three operations.
FullyParenthesizedLines ==
    LET L == <<"(">>
        R == <<")">>
        a == <<"3">>
        b == <<"1">>
        c == <<"2">>
        d == <<"4">>
    IN  {RawLine(<<L, a, o, b, R, p, c>>) :
             o \in OperatorLexemes, p \in OperatorLexemes}
        \cup {RawLine(<<a, o, L, b, p, c, R>>) :
             o \in OperatorLexemes, p \in OperatorLexemes}
        \cup {RawLine(<<L, L, a, o, b, R, p, c, R>>) :
             o \in OperatorLexemes, p \in OperatorLexemes}
        \cup {RawLine(<<L, a, o, L, b, p, c, R, R>>) :
             o \in OperatorLexemes, p \in OperatorLexemes}
        \cup {RawLine(<<L, a, o, b, R, p, L, c, q, d, R>>) :
             o \in OperatorLexemes, p \in OperatorLexemes,
             q \in OperatorLexemes}
        \cup {RawLine(<<L, L, a, o, b, R, p, c, R, q, d>>) :
             o \in OperatorLexemes, p \in OperatorLexemes,
             q \in OperatorLexemes}

Lines ==
    ShortLines \cup ChainLines \cup BrokenChainLines
        \cup FullyParenthesizedLines \cup ExampleLines

(***************************************************************************)
(* What main prints for a line (main.rs 51-62).                            *)
(***************************************************************************)
Printed(msg, num, symbol) == [msg |-> msg, num |-> num, symbol |-> symbol]
NoOutput == Printed("", 0, <<>>)

ErrorMessage(errno) ==
    CASE errno.err = "UnknownSymbol" ->
            Printed("Unknown symbol: {}", 0, errno.text)
      [] errno.err = "MismatchedParentheses" ->
            Printed("Mismatched ( and ).", 0, <<>>)
      [] errno.err = "GeneralError" -> Printed("Syntax error.", 0, <<>>)

NoResult == [tag |-> "None", val |-> 0]

(***************************************************************************)
(* State.                                                                  *)
(***************************************************************************)
VARIABLES
    pc,              \* where the process is
    line,            \* main: the trimmed line of this iteration
    input,           \* parse: the token list parse was called with
    tokens,          \* parse: the tokens the for loop has not yet taken
    token,           \* parse: the token the for loop is processing
    operator_stack,  \* parse: Vec<Token>, top at the end
    operand_queue,   \* parse: LinkedList<Expr>, front first
    expression,      \* main: the value parse returned
    result,          \* main: the value evaluate returned
    output,          \* main: what this iteration printed
    terminated       \* main: the loop flag

vars == <<pc, line, input, tokens, token, operator_stack, operand_queue,
          expression, result, output, terminated>>

parse_vars == <<input, tokens, token, operator_stack, operand_queue>>

Init ==
    /\ pc = "prompt"
    /\ line = <<>>
    /\ input = <<>>
    /\ tokens = <<>>
    /\ token = NoToken
    /\ operator_stack = <<>>
    /\ operand_queue = <<>>
    /\ expression = Unassigned
    /\ result = NoResult
    /\ output = NoOutput
    /\ terminated = FALSE

(***************************************************************************)
(* main (main.rs 39-50): one line is read and trimmed.                     *)
(***************************************************************************)
IsSentinel(l) == l = <<"e", "x", "i", "t">> \/ l = <<"q", "u", "i", "t">>

\* `exit` or `quit`: the loop ends.
ReadSentinel ==
    /\ pc = "prompt"
    /\ \E raw \in Lines :
          /\ IsSentinel(Trim(raw))
          /\ line' = Trim(raw)
    /\ terminated' = TRUE
    /\ pc' = "exited"
    /\ UNCHANGED <<parse_vars, expression, result, output>>

\* An empty line: continue.
ReadEmpty ==
    /\ pc = "prompt"
    /\ \E raw \in Lines : Trim(raw) = <<>>
    /\ UNCHANGED vars

\* Any other line: parse(lex(&line)) is entered.
ReadExpression ==
    /\ pc = "prompt"
    /\ \E raw \in Lines :
          /\ ~IsSentinel(Trim(raw))
          /\ Trim(raw) # <<>>
          /\ line' = Trim(raw)
          /\ input' = lex(Trim(raw))
          /\ tokens' = lex(Trim(raw))
    /\ token' = NoToken
    /\ operator_stack' = <<>>
    /\ operand_queue' = <<>>
    /\ pc' = "for"
    /\ UNCHANGED <<expression, result, output, terminated>>

(***************************************************************************)
(* parse (main.rs 110-157): the for loop over the tokens.  A return leaves *)
(* the locals as they were (they are dropped with the frame) and hands     *)
(* `expression` to main's match.                                           *)
(***************************************************************************)
Return(value) ==
    /\ expression' = value
    /\ pc' = "match"

\* A parser that keeps the offending token on the operator stack and goes
\* on, leaving the report to the end-of-input drain.
ParseLexicalErrorDeferred ==
    /\ pc = "for"
    /\ tokens # <<>>
    /\ Head(tokens).kind = "LexicalError"
    /\ token' = Head(tokens)
    /\ tokens' = Tail(tokens)
    /\ operator_stack' = Append(operator_stack, Head(tokens))
    /\ UNCHANGED <<pc, line, input, operand_queue, expression, result, output,
                   terminated>>

\* main.rs 112
ParseLexicalError ==
    /\ pc = "for"
    /\ tokens # <<>>
    /\ Head(tokens).kind = "LexicalError"
    /\ token' = Head(tokens)
    /\ tokens' = Tail(tokens)
    /\ Return(Err(UnknownSymbol(Head(tokens).text)))
    /\ UNCHANGED <<line, input, operator_stack, operand_queue, result, output,
                   terminated>>

\* main.rs 113
ParseNumber ==
    /\ pc = "for"
    /\ tokens # <<>>
    /\ Head(tokens).kind = "LexicalNumber"
    /\ token' = Head(tokens)
    /\ tokens' = Tail(tokens)
    /\ operand_queue' = PushFront(operand_queue, Number(Head(tokens).num))
    /\ UNCHANGED <<pc, line, input, operator_stack, expression, result, output,
                   terminated>>

\* main.rs 114
ParseLParen ==
    /\ pc = "for"
    /\ tokens # <<>>
    /\ Head(tokens).kind = "LPAREN"
    /\ token' = Head(tokens)
    /\ tokens' = Tail(tokens)
    /\ operator_stack' = Append(operator_stack, LPAREN)
    /\ UNCHANGED <<pc, line, input, operand_queue, expression, result, output,
                   terminated>>

\* An RPAREN arm that keeps the token on the operator stack, as the LPAREN
\* arm does.
ParseRParenKept ==
    /\ pc = "for"
    /\ tokens # <<>>
    /\ Head(tokens).kind = "RPAREN"
    /\ token' = Head(tokens)
    /\ tokens' = Tail(tokens)
    /\ operator_stack' = Append(operator_stack, RPAREN)
    /\ pc' = "for"
    /\ UNCHANGED <<line, input, operand_queue, expression, result, output,
                   terminated>>

\* main.rs 115: the RPAREN arm is entered.
ParseRParen ==
    /\ pc = "for"
    /\ tokens # <<>>
    /\ Head(tokens).kind = "RPAREN"
    /\ token' = Head(tokens)
    /\ tokens' = Tail(tokens)
    /\ pc' = "rparen_while"
    /\ UNCHANGED <<line, input, operator_stack, operand_queue, expression,
                   result, output, terminated>>

\* main.rs 116, 120-121: operator_stack.last().unwrap() on an empty stack,
\* or pop_front().unwrap() on an operand list that has run out.
RParenPanic ==
    /\ pc = "rparen_while"
    /\ IF operator_stack = <<>> THEN TRUE
       ELSE Last(operator_stack) # LPAREN /\ Len(operand_queue) < 2
    /\ pc' = "panic"
    /\ UNCHANGED <<line, parse_vars, expression, result, output, terminated>>

\* main.rs 116-126: one iteration of the while loop.
RParenReduce ==
    /\ pc = "rparen_while"
    /\ operator_stack # <<>>
    /\ Last(operator_stack) # LPAREN
    /\ Len(operand_queue) >= 2
    /\ LET l_op == operand_queue[1]
           r_op == operand_queue[2]
           built == construct_expr(PopOption(operator_stack), l_op, r_op)
       IN  /\ operator_stack' = Pop(operator_stack)
           /\ IF built.tag = "Ok"
              THEN /\ operand_queue' =
                         PushBack(Tail(Tail(operand_queue)), built.expr)
                   /\ UNCHANGED <<pc, expression>>
              ELSE /\ operand_queue' = Tail(Tail(operand_queue))
                   /\ Return(built)
    /\ UNCHANGED <<line, input, tokens, token, result, output, terminated>>

\* main.rs 116, 127-130: the top is LPAREN; it is removed.
RParenMatch ==
    /\ pc = "rparen_while"
    /\ operator_stack # <<>>
    /\ Last(operator_stack) = LPAREN
    /\ operator_stack' = Pop(operator_stack)
    /\ pc' = "for"
    /\ UNCHANGED <<line, input, tokens, token, operand_queue, expression,
                   result, output, terminated>>

\* An operator branch that pushes at once only on an empty stack, and
\* compares the incoming operator with LPAREN as with any other top.
ParseOperatorCompared ==
    /\ pc = "for"
    /\ tokens # <<>>
    /\ Head(tokens).kind \in OperatorKinds
    /\ token' = Head(tokens)
    /\ tokens' = Tail(tokens)
    /\ IF operator_stack = <<>>
       THEN /\ operator_stack' = Append(operator_stack, Head(tokens))
            /\ pc' = "for"
       ELSE /\ operator_stack' = operator_stack
            /\ pc' = "op_loop"
    /\ UNCHANGED <<line, input, operand_queue, expression, result, output,
                   terminated>>

\* main.rs 132-136: an operator token.
ParseOperator ==
    /\ pc = "for"
    /\ tokens # <<>>
    /\ Head(tokens).kind \in OperatorKinds
    /\ token' = Head(tokens)
    /\ tokens' = Tail(tokens)
    /\ IF operator_stack = <<>> \/ Last(operator_stack) = LPAREN
       THEN /\ operator_stack' = Append(operator_stack, Head(tokens))
            /\ pc' = "for"
       ELSE /\ operator_stack' = operator_stack
            /\ pc' = "op_loop"
    /\ UNCHANGED <<line, input, operand_queue, expression, result, output,
                   terminated>>

\* The test of main.rs 141 for the incoming operator and the popped op2.
Reduces(operator, op2) ==
    LET p1 == op_table[operator.kind].prec
        a1 == op_table[operator.kind].assoc
        p2 == op_table[op2.kind].prec
    IN  (p1 < p2 /\ a1 = "RIGHT") \/ (p1 <= p2 /\ a1 = "LEFT")

\* main.rs 138, 142-143: operator_stack.pop().unwrap() on an empty stack,
\* or pop_front().unwrap() on an operand list that has run out.
OpLoopPanic ==
    /\ pc = "op_loop"
    /\ IF operator_stack = <<>> THEN TRUE
       ELSE Reduces(token, Last(operator_stack)) /\ Len(operand_queue) < 2
    /\ pc' = "panic"
    /\ UNCHANGED <<line, parse_vars, expression, result, output, terminated>>

\* main.rs 138-148: op2 is popped, and the node is built from the operator
\* popped after it (op2_pop).
OpLoopReduce ==
    /\ pc = "op_loop"
    /\ operator_stack # <<>>
    /\ Reduces(token, Last(operator_stack))
    /\ Len(operand_queue) >= 2
    /\ LET rest == Pop(operator_stack)
           l_op == operand_queue[1]
           r_op == operand_queue[2]
           op2_pop == PopOption(rest)
           built == construct_expr(op2_pop, l_op, r_op)
       IN  /\ operator_stack' = PopRest(rest)
           /\ IF built.tag = "Ok"
              THEN /\ operand_queue' =
                         PushBack(Tail(Tail(operand_queue)), built.expr)
                   /\ UNCHANGED <<pc, expression>>
              ELSE /\ operand_queue' = Tail(Tail(operand_queue))
                   /\ Return(built)
    /\ UNCHANGED <<line, input, tokens, token, result, output, terminated>>

\* main.rs 138-141, 149-154: op2 goes back, the operator is pushed.
OpLoopPush ==
    /\ pc = "op_loop"
    /\ operator_stack # <<>>
    /\ ~Reduces(token, Last(operator_stack))
    /\ operator_stack' = Append(operator_stack, token)
    /\ pc' = "for"
    /\ UNCHANGED <<line, input, tokens, token, operand_queue, expression,
                   result, output, terminated>>

\* main.rs 110, 157: the tokens are used up.
ParseEnd ==
    /\ pc = "for"
    /\ tokens = <<>>
    /\ pc' = "drain"
    /\ UNCHANGED <<line, parse_vars, expression, result, output, terminated>>

\* main.rs 159-178: one iteration of the drain loop.
DrainStep ==
    /\ pc = "drain"
    /\ Len(operator_stack) > 0
    /\ LET operator == Last(operator_stack)
       IN  /\ operator_stack' = Pop(operator_stack)
           /\ CASE operator.kind \in {"LPAREN", "RPAREN"} ->
                     /\ Return(Err(MismatchedParentheses))
                     /\ UNCHANGED operand_queue
                [] operator.kind = "LexicalError" ->
                     /\ Return(Err(UnknownSymbol(operator.text)))
                     /\ UNCHANGED operand_queue
                [] OTHER ->
                     IF Len(operand_queue) < 2
                     THEN /\ Return(Err(GeneralError))
                          /\ UNCHANGED operand_queue
                     ELSE LET l_op == operand_queue[1]
                              r_op == operand_queue[2]
                              built == construct_expr(operator, l_op, r_op)
                          IN  IF built.tag = "Ok"
                              THEN /\ operand_queue' =
                                         PushBack(Tail(Tail(operand_queue)),
                                                  built.expr)
                                   /\ UNCHANGED <<pc, expression>>
                              ELSE /\ operand_queue' =
                                         Tail(Tail(operand_queue))
                                   /\ Return(built)
    /\ UNCHANGED <<line, input, tokens, token, result, output, terminated>>

\* A termination check that is content with the front expression and lets
\* the others go.
ParseReturnFront ==
    /\ pc = "drain"
    /\ Len(operator_stack) = 0
    /\ IF Len(operand_queue) = 0
       THEN /\ Return(Err(GeneralError))
            /\ UNCHANGED operand_queue
       ELSE /\ Return(Ok(Head(operand_queue)))
            /\ operand_queue' = Tail(operand_queue)
    /\ UNCHANGED <<line, input, tokens, token, operator_stack, result, output,
                   terminated>>

\* main.rs 179-182
ParseReturn ==
    /\ pc = "drain"
    /\ Len(operator_stack) = 0
    /\ IF Len(operand_queue) # 1
       THEN /\ Return(Err(GeneralError))
            /\ UNCHANGED operand_queue
       ELSE /\ Return(Ok(Head(operand_queue)))
            /\ operand_queue' = Tail(operand_queue)
    /\ UNCHANGED <<line, input, tokens, token, operator_stack, result, output,
                   terminated>>

(***************************************************************************)
(* main (main.rs 51-62): the match on what parse returned.  The build      *)
(* either traps arithmetic overflow or wraps; no state is carried from one *)
(* line to the next, so the choice is drawn where evaluate is called.      *)
(***************************************************************************)
\* main.rs 52-55
EvaluateLine ==
    /\ pc = "match"
    /\ expression.tag = "Ok"
    /\ \E checks \in BOOLEAN :
          LET r == evaluate(expression.expr, checks)
          IN  /\ r.tag # "Panic"
              /\ result' = r
              /\ output' = IF r.tag = "Ok"
                           THEN Printed("{}", r.val, <<>>)
                           ELSE Printed("Cannot divide by zero!", 0, <<>>)
    /\ pc' = "printed"
    /\ UNCHANGED <<line, parse_vars, expression, terminated>>

\* main.rs 52: a panic inside evaluate.
EvaluatePanic ==
    /\ pc = "match"
    /\ expression.tag = "Ok"
    /\ \E checks \in BOOLEAN : evaluate(expression.expr, checks).tag = "Panic"
    /\ pc' = "panic"
    /\ UNCHANGED <<line, parse_vars, expression, result, output, terminated>>

\* main.rs 56-61
ReportSyntaxError ==
    /\ pc = "match"
    /\ expression.tag = "Err"
    /\ output' = ErrorMessage(expression.error)
    /\ pc' = "printed"
    /\ UNCHANGED <<line, parse_vars, expression, result, terminated>>

\* main.rs 39-40: the next iteration of the loop.
Continue ==
    /\ pc = "printed"
    /\ pc' = "prompt"
    /\ line' = <<>>
    /\ input' = <<>>
    /\ tokens' = <<>>
    /\ token' = NoToken
    /\ operator_stack' = <<>>
    /\ operand_queue' = <<>>
    /\ expression' = Unassigned
    /\ result' = NoResult
    /\ output' = NoOutput
    /\ UNCHANGED terminated

Next ==
    \/ ReadSentinel
    \/ ReadEmpty
    \/ ReadExpression
    \/ ParseLexicalError
    \/ ParseNumber
    \/ ParseLParen
    \/ ParseRParen
    \/ RParenPanic
    \/ RParenReduce
    \/ RParenMatch
    \/ ParseOperator
    \/ OpLoopPanic
    \/ OpLoopReduce
    \/ OpLoopPush
    \/ ParseEnd
    \/ DrainStep
    \/ ParseReturn
    \/ EvaluateLine
    \/ EvaluatePanic
    \/ ReportSyntaxError
    \/ Continue

Spec == Init /\ [][Next]_vars

(***************************************************************************)
(* parse alone (main.rs 92-183), called with any token list: the lists lex *)
(* returns for the lines, and the empty list, which lex never returns.     *)
(***************************************************************************)
ParseInputs == {<<>>} \cup {lex(Trim(raw)) : raw \in Lines}

InitParse ==
    /\ pc = "for"
    /\ line = <<>>
    /\ input \in ParseInputs
    /\ tokens = input
    /\ token = NoToken
    /\ operator_stack = <<>>
    /\ operand_queue = <<>>
    /\ expression = Unassigned
    /\ result = NoResult
    /\ output = NoOutput
    /\ terminated = FALSE

NextParse ==
    \/ ParseLexicalError
    \/ ParseNumber
    \/ ParseLParen
    \/ ParseRParen
    \/ RParenPanic
    \/ RParenReduce
    \/ RParenMatch
    \/ ParseOperator
    \/ OpLoopPanic
    \/ OpLoopReduce
    \/ OpLoopPush
    \/ ParseEnd
    \/ DrainStep
    \/ ParseReturn

SpecParse == InitParse /\ [][NextParse]_vars

(***************************************************************************)
(* Vocabulary of the properties.                                           *)
(***************************************************************************)
\* The tokens of the line being processed.
Toks == lex(line)

\* The line made of the given one-character chunks, as main holds it.
LineOf(cs) == Trim(Words(cs))

IsNum(t) == t.kind = "LexicalNumber"
IsOp(t) == t.kind \in OperatorKinds

\* The node kind an operator token stands for.
KindOf(t) ==
    CASE t.kind = "POW" -> "Pow" [] t.kind = "PLUS" -> "Plus"
      [] t.kind = "MINUS" -> "Minus" [] t.kind = "TIMES" -> "Times"
      [] t.kind = "DIVIDE" -> "Divide" [] t.kind = "MODULO" -> "Modulo"

PrecOf(t) == op_table[t.kind].prec
AssocOf(t) == op_table[t.kind].assoc

\* parse is over: it has returned, or the process has died.
ParseEnded == pc \in {"match", "printed", "panic"}
\* The line is over: something was printed, or the process has died.
LineEnded == pc \in {"printed", "panic"}

\* a op1 b op2 c
IsChain(t) ==
    /\ Len(t) = 5
    /\ IsNum(t[1]) /\ IsOp(t[2]) /\ IsNum(t[3]) /\ IsOp(t[4]) /\ IsNum(t[5])

\* (a op1 b) op2 c   and   a op1 (b op2 c)
GroupedLeft(t) ==
    BinaryOp(KindOf(t[4]),
             BinaryOp(KindOf(t[2]), Number(t[1].num), Number(t[3].num)),
             Number(t[5].num))
GroupedRight(t) ==
    BinaryOp(KindOf(t[2]),
             Number(t[1].num),
             BinaryOp(KindOf(t[4]), Number(t[3].num), Number(t[5].num)))

\* C1: for all numbers a, b, c and left-associative operators op1, op2 of
\* equal precedence, parse of `a op1 b op2 c` returns Ok((a op1 b) op2 c);
\* and the line "8 - 3 - 2" evaluates to 3.
C1_LeftAssociativeChain ==
    /\ ( /\ IsChain(Toks)
         /\ PrecOf(Toks[2]) = PrecOf(Toks[4])
         /\ AssocOf(Toks[2]) = "LEFT" /\ AssocOf(Toks[4]) = "LEFT"
         /\ ParseEnded )
       => expression = Ok(GroupedLeft(Toks))
    /\ (line = LineOf(<<"8", "-", "3", "-", "2">>) /\ LineEnded)
       => (pc = "printed" /\ result = EvalOk(3))

\* C2: for all numbers a, b, c, parse of `a ^ b ^ c` returns
\* Ok(a ^ (b ^ c)); and the line "2 ^ 3 ^ 2" evaluates to 512.
C2_RightAssociativeChain ==
    /\ ( /\ IsChain(Toks)
         /\ Toks[2] = POW /\ Toks[4] = POW
         /\ ParseEnded )
       => expression = Ok(GroupedRight(Toks))
    /\ (line = LineOf(<<"2", "^", "3", "^", "2">>) /\ LineEnded)
       => (pc = "printed" /\ result = EvalOk(512))

\* C3: for all numbers a, b, c and operators of different precedence, the
\* operator of higher precedence is grouped first, whichever comes first:
\* `a lo b hi c` parses to a lo (b hi c) and `a hi b lo c` to (a hi b) lo c;
\* "2 + 3 * 4" evaluates to 14 and "2 * 3 + 4" to 10.
C3_Precedence ==
    /\ (IsChain(Toks) /\ PrecOf(Toks[4]) > PrecOf(Toks[2]) /\ ParseEnded)
       => expression = Ok(GroupedRight(Toks))
    /\ (IsChain(Toks) /\ PrecOf(Toks[2]) > PrecOf(Toks[4]) /\ ParseEnded)
       => expression = Ok(GroupedLeft(Toks))
    /\ (line = LineOf(<<"2", "+", "3", "*", "4">>) /\ LineEnded)
       => (pc = "printed" /\ result = EvalOk(14))
    /\ (line = LineOf(<<"2", "*", "3", "+", "4">>) /\ LineEnded)
       => (pc = "printed" /\ result = EvalOk(10))

\* C4: for every integer a, the lines `a / 0` and `a % 0` end with the
\* DivisionByZero error value: not with an integer, not with a crash.
C4_DivisionByZeroLine ==
    ( /\ Len(Toks) = 3
      /\ IsNum(Toks[1])
      /\ Toks[2] \in {DIVIDE, MODULO}
      /\ Toks[3] = LexicalNumber(0)
      /\ LineEnded )
    => (pc = "printed" /\ result = EvalErr)

\* C5: parse returns a value, Ok(tree) or Err(SyntaxError), for every token
\* sequence: the process never dies inside parse.
C5_ParserTotal ==
    ~(pc = "panic" /\ expression.tag = "Unassigned")

NoLParen(stack) == \A i \in 1..Len(stack) : stack[i] # LPAREN

\* C6: when an RParen is processed and the operator stack holds no LParen,
\* parse returns Err(MismatchedParentheses), whatever the operands are: the
\* RParen arm is left only by that return.
C6_UnbalancedClosing ==
    [][ (pc = "rparen_while" /\ NoLParen(operator_stack))
        => \/ pc' = "rparen_while"
           \/ pc' = "match" /\ expression' = Err(MismatchedParentheses) ]_vars

\* A well-formed infix expression: terms (a number, or a parenthesised
\* expression) separated by operators.  EndOfExpr(t, i) is the position
\* after the longest expression that starts at i, 0 if there is none.
RECURSIVE EndOfExpr(_, _)
RECURSIVE EndOfTerm(_, _)
RECURSIVE EndOfRest(_, _)
EndOfTerm(t, i) ==
    IF i > Len(t) THEN 0
    ELSE IF IsNum(t[i]) THEN i + 1
    ELSE IF t[i] = LPAREN
         THEN LET j == EndOfExpr(t, i + 1)
              IN  IF j # 0 /\ j <= Len(t) /\ t[j] = RPAREN THEN j + 1 ELSE 0
    ELSE 0
EndOfRest(t, j) ==
    IF j <= Len(t) /\ IsOp(t[j])
    THEN LET k == EndOfTerm(t, j + 1)
         IN  IF k = 0 THEN 0 ELSE EndOfRest(t, k)
    ELSE j
EndOfExpr(t, i) ==
    LET j == EndOfTerm(t, i)
    IN  IF j = 0 THEN 0 ELSE EndOfRest(t, j)

IsExpr(t) == t # <<>> /\ EndOfExpr(t, 1) = Len(t) + 1

\* ( E
IsOpenedExpr(t) ==
    /\ Len(t) >= 2
    /\ t[1] = LPAREN
    /\ IsExpr(Tail(t))
\* E op (
IsExprThenOpen(t) ==
    /\ Len(t) >= 3
    /\ t[Len(t)] = LPAREN
    /\ IsOp(t[Len(t) - 1])
    /\ IsExpr(SubSeq(t, 1, Len(t) - 2))

\* C7: for every well-formed expression E and operator op, parse of `( E`
\* and of `E op (` returns Err(MismatchedParentheses).
C7_UnbalancedOpening ==
    ((IsOpenedExpr(Toks) \/ IsExprThenOpen(Toks)) /\ ParseEnded)
    => expression = Err(MismatchedParentheses)

\* The evaluation of e comes to a Divide or Modulo node whose right operand
\* evaluates to 0 (in the order evaluate visits the nodes).
RECURSIVE ReachesZeroDivisor(_, _)
ReachesZeroDivisor(e, checks) ==
    IF e.op = "Number" THEN FALSE
    ELSE IF e.op \in {"Divide", "Modulo"}
         THEN \/ ReachesZeroDivisor(e.right, checks)
              \/ evaluate(e.right, checks) = EvalOk(0)
              \/ /\ evaluate(e.right, checks).tag = "Ok"
                 /\ ReachesZeroDivisor(e.left, checks)
    ELSE \/ ReachesZeroDivisor(e.left, checks)
         \/ /\ evaluate(e.left, checks).tag = "Ok"
            /\ ReachesZeroDivisor(e.right, checks)

\* C8: when the evaluation of a tree comes to a Divide or Modulo node whose
\* right operand evaluates to 0, evaluate of the root returns the
\* DivisionByZero error value, at every depth and under every operator: it
\* never aborts and never returns an integer.
C8_DivisionByZeroPropagates ==
    ( /\ expression.tag = "Ok"
      /\ LineEnded
      /\ \A checks \in BOOLEAN : ReachesZeroDivisor(expression.expr, checks) )
    => (pc = "printed" /\ result = EvalErr)

\* number, operator, number, ..., number
IsAlternation(t) ==
    /\ Len(t) % 2 = 1
    /\ \A i \in 1..Len(t) : IF i % 2 = 1 THEN IsNum(t[i]) ELSE IsOp(t[i])

\* C9: a token sequence of numbers and operators only that is not a strict
\* alternation number, operator, ..., number is rejected with GeneralError:
\* parse never returns Ok for it and never crashes.
C9_MalformedArrangement ==
    ( /\ \A i \in 1..Len(Toks) : IsNum(Toks[i]) \/ IsOp(Toks[i])
      /\ ~IsAlternation(Toks)
      /\ ParseEnded )
    => expression = Err(GeneralError)

\* The first LexicalError token of t (t holds one).
FirstLexicalError(t) ==
    t[CHOOSE i \in 1..Len(t) :
        /\ t[i].kind = "LexicalError"
        /\ \A j \in 1..(i - 1) : t[j].kind # "LexicalError"]

HasLexicalError(t) == \E i \in 1..Len(t) : t[i].kind = "LexicalError"

\* C10: when the for loop of parse takes a LexicalError(text) token, parse
\* returns Err(UnknownSymbol(text)) in that step, whatever the two stacks
\* hold; whenever parse has returned UnknownSymbol(t), t is the text of the
\* first LexicalError token of the line; "1 @ 2" fails with
\* UnknownSymbol("@").
C10_UnknownSymbol ==
    /\ [][ (pc = "for" /\ tokens # <<>> /\ Head(tokens).kind = "LexicalError")
           => /\ pc' = "match"
              /\ expression' = Err(UnknownSymbol(Head(tokens).text)) ]_vars
    /\ [] ( (expression.tag = "Err" /\ expression.error.err = "UnknownSymbol")
            => /\ HasLexicalError(Toks)
               /\ expression.error.text = FirstLexicalError(Toks).text )
    /\ [] ( (line = LineOf(<<"1", "@", "2">>) /\ ParseEnded)
            => expression = Err(UnknownSymbol(<<"@">>)) )

\* C10's case: the first offending chunk is met with operators and operands
\* already on the two stacks and another offending chunk still to come.
C10_Witness ==
    /\ pc = "match"
    /\ token.kind = "LexicalError"
    /\ operator_stack # <<>>
    /\ operand_queue # <<>>
    /\ \E i \in 1..Len(tokens) :
          tokens[i].kind = "LexicalError" /\ tokens[i].text # token.text
    /\ expression = Err(UnknownSymbol(token.text))


(***************************************************************************)
(* The properties of parse alone are stated over `input`, the token list   *)
(* parse was called with.                                                  *)
(***************************************************************************)
AllNumbers(t) == \A i \in 1..Len(t) : IsNum(t[i])

\* C11: the termination check of the parser.  parse of the empty token
\* list returns Err(GeneralError); when the operator stack has been drained
\* and zero or more than one expression is left on the operand list, parse
\* returns Err(GeneralError); parse returns Ok only from a drained stack
\* with exactly one expression left, and Ok of that expression; every list
\* of two or more numbers and nothing else yields GeneralError.
C11_TerminationCheck ==
    /\ [][ /\ (pc = "drain" /\ operator_stack = <<>>) =>
                  IF Len(operand_queue) = 1
                  THEN expression' = Ok(operand_queue[1])
                  ELSE expression' = Err(GeneralError)
           /\ (expression'.tag = "Ok" /\ expression.tag # "Ok") =>
                  /\ pc = "drain"
                  /\ operator_stack = <<>>
                  /\ Len(operand_queue) = 1 ]_vars
    /\ [](pc = "match" /\ input = <<>> => expression = Err(GeneralError))
    /\ [](pc = "match" /\ Len(input) >= 2 /\ AllNumbers(input) =>
              expression = Err(GeneralError))

\* parse has returned GeneralError for the empty token list.
C11_Witness ==
    /\ pc = "match"
    /\ input = <<>>
    /\ token = NoToken
    /\ operand_queue = <<>>
    /\ expression = Err(GeneralError)

\* C12: the empty line through the core.  When lex and then parse have been
\* applied to the empty line, parse has returned Err(GeneralError): not
\* UnknownSymbol, and no crash.
C12_EmptyLine ==
    (pc \in {"match", "panic"} /\ input = lex(<<>>)) =>
        (pc = "match" /\ expression = Err(GeneralError))

\* A fully parenthesised expression: every binary operation stands in its
\* own pair of parentheses, and the outermost pair may be left out.
\* EndOfGroup(t, i) is the position after the number or parenthesised
\* operation that starts at i, 0 if there is none.
RECURSIVE EndOfGroup(_, _)
EndOfGroup(t, i) ==
    IF i > Len(t) THEN 0
    ELSE IF IsNum(t[i]) THEN i + 1
    ELSE IF t[i] = LPAREN
         THEN LET j == EndOfGroup(t, i + 1)
              IN  IF j = 0 \/ j > Len(t) THEN 0
                  ELSE IF ~IsOp(t[j]) THEN 0
                  ELSE LET k == EndOfGroup(t, j + 1)
                       IN  IF k = 0 \/ k > Len(t) THEN 0
                           ELSE IF t[k] = RPAREN THEN k + 1 ELSE 0
    ELSE 0

IsFullyParenthesized(t) ==
    LET j == EndOfGroup(t, 1)
    IN  /\ j # 0
        /\ \/ j = Len(t) + 1
           \/ /\ j <= Len(t)
              /\ IsOp(t[j])
              /\ EndOfGroup(t, j + 1) = Len(t) + 1

\* C13: parentheses always win.  op_table is read in one place only, the
\* comparison of the incoming operator with the popped one (main.rs
\* 139-141), so two parsers that differ in the table's values run alike, and
\* return the same tree, on every input whose processing never gets there.
\* On a fully parenthesised expression it never does: each operator arrives
\* at an empty operator stack or at one with LPAREN on top.  And
\* `( 2 + 3 ) * 4` evaluates to 20.
C13_ParenthesesWin ==
    /\ IsFullyParenthesized(Toks) => pc # "op_loop"
    /\ (LineEnded /\ line = LineOf(<<"(", "2", "+", "3", ")", "*", "4">>)) =>
          (pc = "printed" /\ result = EvalOk(20))

\* `( 2 + 3 ) * 4` has been parsed and evaluated.
C13_Witness ==
    /\ pc = "printed"
    /\ line = LineOf(<<"(", "2", "+", "3", ")", "*", "4">>)
    /\ IsFullyParenthesized(Toks)
    /\ expression.tag = "Ok"
    /\ result = EvalOk(20)

\* a op b
IsSingleOperation(t) ==
    Len(t) = 3 /\ IsNum(t[1]) /\ IsOp(t[2]) /\ IsNum(t[3])

\* C14: the operand order of a reduction.  For all numbers a and b and
\* every operator op, parse of `a op b` returns BinaryOp(op, left = a,
\* right = b); `8 - 3` evaluates to 5 and `7 / 2` to 3.
C14_OperandOrder ==
    /\ (ParseEnded /\ IsSingleOperation(Toks)) =>
          expression = Ok(BinaryOp(KindOf(Toks[2]), Number(Toks[1].num),
                                   Number(Toks[3].num)))
    /\ (LineEnded /\ line = LineOf(<<"8", "-", "3">>)) =>
          (pc = "printed" /\ result = EvalOk(5))
    /\ (LineEnded /\ line = LineOf(<<"7", "/", "2">>)) =>
          (pc = "printed" /\ result = EvalOk(3))

\* C15: the operand container is a LIFO stack.  Numbers are pushed at its
\* front (main.rs 113); every reduction that goes on takes its two entries
\* from the front, builds the node with the most recent one on the right and
\* the one before it on the left, and pushes the node at the front again.
\* `1 + ( 2 * 3 ) * 4` evaluates to 25.
C15_LifoOperandStack ==
    /\ [][ (operand_queue' # operand_queue /\ pc # "printed"
               /\ pc' # "match") =>
              \/ /\ Len(operand_queue') = Len(operand_queue) + 1
                 /\ Tail(operand_queue') = operand_queue
                 /\ Head(operand_queue').op = "Number"
              \/ /\ Len(operand_queue) >= 2
                 /\ Len(operand_queue') = Len(operand_queue) - 1
                 /\ Tail(operand_queue') = Tail(Tail(operand_queue))
                 /\ Head(operand_queue').op # "Number"
                 /\ Head(operand_queue').right = operand_queue[1]
                 /\ Head(operand_queue').left = operand_queue[2] ]_vars
    /\ []((LineEnded /\ line = LineOf(<<"1", "+", "(", "2", "*", "3", ")",
                                       "*", "4">>)) =>
             (pc = "printed" /\ result = EvalOk(25)))

\* The condition under which the incoming operator's arrival reduces the
\* operator on top of the stack.
TopGivesWay(operator, top) ==
    \/ PrecOf(operator) < PrecOf(top)
    \/ PrecOf(operator) = PrecOf(top) /\ AssocOf(operator) = "LEFT"

\* C16: the reduction step in the operator branch.  When the incoming
\* operator meets a real operator on top of the operator stack and two
\* operands are there: if the top gives way, the step removes exactly that
\* one operator, leaves everything below it as it was and puts a node of the
\* top's kind on the operand list; if not, the top stays and the incoming
\* operator is pushed above it.
C16_ReductionStep ==
    [][ ( /\ pc = "op_loop"
          /\ operator_stack # <<>>
          /\ IsOp(Last(operator_stack))
          /\ Len(operand_queue) >= 2 ) =>
           IF TopGivesWay(token, Last(operator_stack))
           THEN /\ operator_stack' = Pop(operator_stack)
                /\ Len(operand_queue') = Len(operand_queue) - 1
                /\ \E i \in 1..Len(operand_queue') :
                      /\ operand_queue'[i].op = KindOf(Last(operator_stack))
                      /\ {operand_queue'[i].left, operand_queue'[i].right}
                            = {operand_queue[1], operand_queue[2]}
           ELSE /\ operator_stack' = Append(operator_stack, token)
                /\ operand_queue' = operand_queue ]_vars

LParensOn(stack) == Cardinality({i \in 1..Len(stack) : stack[i] = LPAREN})

\* C17: no reduction across a parenthesis.  While an operator token is
\* processed, the loop of the operator branch never stands before an LPAREN
\* top (it has stopped there: the LPAREN is not compared, not looked up and
\* not reduced), and none of its steps takes an LPAREN off the operator
\* stack.  In `( 1 + 2 * 3 - 4 )`, once `-` has been dealt with it is on
\* top of the stack and the `(` is still at the bottom.
C17_ParenthesisBoundary ==
    /\ [][ pc = "op_loop" =>
              LParensOn(operator_stack') = LParensOn(operator_stack) ]_vars
    /\ []( (pc = "op_loop" /\ operator_stack # <<>>) =>
              Last(operator_stack) # LPAREN )
    /\ []( ( /\ line = LineOf(<<"(", "1", "+", "2", "*", "3", "-", "4", ")">>)
             /\ token = MINUS
             /\ pc # "op_loop" ) =>
              ( /\ pc = "for"
                /\ Len(operator_stack) >= 2
                /\ Head(operator_stack) = LPAREN
                /\ Last(operator_stack) = MINUS ) )

\* -|n|, which every 32-bit n has.
NegAbs(n) == IF n > 0 THEN -n ELSE n

\* q is l / r truncated toward zero: what is left over is smaller than r
\* and has the sign of l.
IsQuotient(l, r, q) ==
    LET left_over == l - q * r
    IN  /\ NegAbs(left_over) > NegAbs(r)
        /\ left_over = 0 \/ (left_over < 0) = (l < 0)

\* m is the remainder of l by r with the sign of the dividend l.
IsRemainder(l, r, m) ==
    /\ NegAbs(m) > NegAbs(r)
    /\ m = 0 \/ (m < 0) = (l < 0)
    /\ IF r = I32Min THEN l - m \in {0, I32Min}
       ELSE (l - m) % (-NegAbs(r)) = 0

\* Divide or Modulo of two numbers.
IsNumberDivision(e) ==
    IF e.op \in {"Divide", "Modulo"}
    THEN e.left.op = "Number" /\ e.right.op = "Number"
    ELSE FALSE

\* C18: integer division and remainder over the whole 32-bit range.  When
\* the tree is Divide or Modulo of two numbers l and r, r not 0, the
\* evaluation does not abort: it returns Ok of l / r truncated toward zero,
\* or Ok of the remainder with the sign of l; so for l = -2^31 and r = -1.
C18_DivisionRange ==
    ( /\ LineEnded
      /\ expression.tag = "Ok"
      /\ IsNumberDivision(expression.expr)
      /\ expression.expr.right.val # 0 ) =>
        LET l == expression.expr.left.val
            r == expression.expr.right.val
        IN  /\ pc = "printed"
            /\ result.tag = "Ok"
            /\ IF expression.expr.op = "Divide"
               THEN IsQuotient(l, r, result.val)
               ELSE IsRemainder(l, r, result.val)

\* The token the next reduction hands to construct_expr (main.rs 122, 145,
\* 171), NoToken where the stack has nothing to hand over.
HandedToConstruct ==
    CASE pc = "rparen_while" -> PopOption(operator_stack)
      [] pc = "op_loop" -> PopOption(PopRest(operator_stack))
      [] pc = "drain" -> PopOption(operator_stack)
      [] OTHER -> NoToken

\* C19: the invariant of the operator stack.  After every step of parse,
\* on every token list, the operator stack holds only the six operators and
\* LPAREN; so the end-of-input drain never pops an RPAREN or a LexicalError
\* and construct_expr is never handed a LexicalError.
C19_OperatorStackInvariant ==
    /\ \A i \in 1..Len(operator_stack) :
          operator_stack[i].kind \in OperatorKinds \cup {"LPAREN"}
    /\ (pc = "drain" /\ operator_stack # <<>>) =>
          Last(operator_stack).kind \notin {"RPAREN", "LexicalError"}
    /\ HandedToConstruct.kind # "LexicalError"

\* The end-of-input drain finds an operator on the stack of a token list
\* that had an RPAREN in it.
C19_Witness ==
    /\ pc = "drain"
    /\ \E i \in 1..Len(input) : input[i] = RPAREN
    /\ operator_stack # <<>>
    /\ IsOp(Last(operator_stack))

\* How often the number n is a leaf of e, and how often e has a node of
\* kind k.
RECURSIVE Leaves(_, _)
Leaves(e, n) ==
    IF e.op = "Number" THEN (IF e.val = n THEN 1 ELSE 0)
    ELSE Leaves(e.left, n) + Leaves(e.right, n)

RECURSIVE Nodes(_, _)
Nodes(e, k) ==
    IF e.op = "Number" THEN 0
    ELSE (IF e.op = k THEN 1 ELSE 0) + Nodes(e.left, k) + Nodes(e.right, k)

RECURSIVE LeafValues(_)
LeafValues(e) ==
    IF e.op = "Number" THEN {e.val}
    ELSE LeafValues(e.left) \cup LeafValues(e.right)

\* How often the token list t has the token tok.
Occurrences(t, tok) == Cardinality({i \in 1..Len(t) : t[i] = tok})

\* C20: conservation of tokens on success.  Whenever parse returns
\* Ok(tree), every number is a leaf of the tree as often as it is a token of
\* the input, and the tree has as many nodes of each kind as the input has
\* tokens of that operator.
C20_TokenConservation ==
    (pc = "match" /\ expression.tag = "Ok") =>
        LET tree == expression.expr
            numbers == LeafValues(tree)
                          \cup {input[i].num : i \in {j \in 1..Len(input) :
                                                         IsNum(input[j])}}
        IN  /\ \A n \in numbers :
                  Leaves(tree, n) = Occurrences(input, LexicalNumber(n))
            /\ \A k \in OperatorKinds :
                  Nodes(tree, KindOf(Token(k, 0, <<>>)))
                      = Occurrences(input, Token(k, 0, <<>>))

=============================================================================
